---- MODULE Spec2Model ----
(***************************************************************************)
(* GoMattGo rules engine: Board, Group discovery, liberties, capture       *)
(* resolution, ko detection and GameState.update (src/game_state.py,       *)
(* src/piece.py).                                                          *)
(***************************************************************************)
EXTENDS Integers, Sequences, FiniteSets

(* -------------------------------- bounds -------------------------------- *)
\* side length of the board. The source fixes it at 19 (Board.__init__ builds
\* 19 rows of 19 cells); the model keeps the board square and scales it down.
N == 4
\* callers of update choose coordinates in rows 0..1 (the rows next to the top
\* edge), columns 0..MaxCol
MaxCol == 2
\* number of successful update calls explored
MaxSteps == 5
\* number of stones a caller of Board.set_cell puts on a board
MaxStones == 3

(* ------------------------------ enumerations ---------------------------- *)
\* PositionState
EMPTY == "EMPTY"
WHITE == "WHITE"
BLACK == "BLACK"
\* Color
ColorWHITE == "Color.WHITE"
ColorBLACK == "Color.BLACK"
Color == {ColorWHITE, ColorBLACK}

\* largest row / column for which Piece.adjacent_coordinates yields row+1 /
\* col+1: the literal 17 of the source, 19 - 2
LastInner == N - 2

Idx == 0..(N - 1)
PlayRows == {0, 1}
PlayCols == 0..MaxCol
\* coordinates used by callers of Board.set_cell: both ends of each axis
Probe == {0, 1, N - 2, N - 1}

VARIABLES
    board,          \* GameState._board._board : the live grid
    turn,           \* GameState._turn
    num_of_passes,  \* GameState._num_of_passes
    past_boards,    \* GameState._past_boards : set of Board objects [id, cells]
    call,           \* the most recent call and its argument
    result,         \* how that call returned
    prev_board,     \* the live grid at entry to the most recent call
    log,            \* the update calls that returned normally, in order
    groups,         \* the list returned by the most recent Board.get_groups call
    groups_color    \* the colour argument of that call

vars == <<board, turn, num_of_passes, past_boards, call, result, prev_board, log,
          groups, groups_color>>

(* --------------------------------- Piece -------------------------------- *)
\* Piece(row, col, color)
Piece(r, c, color) == [row |-> r, col |-> c, color |-> color]

\* adjacent_coordinates with the lower-edge tests off by one (<= 16 for <= 17)
adjacent_coordinates_short(p) ==
    (IF p.row >= 1 THEN {<<p.row - 1, p.col>>} ELSE {})
    \cup (IF p.row <= LastInner - 1 THEN {<<p.row + 1, p.col>>} ELSE {})
    \cup (IF p.col >= 1 THEN {<<p.row, p.col - 1>>} ELSE {})
    \cup (IF p.col <= LastInner - 1 THEN {<<p.row, p.col + 1>>} ELSE {})

\* Piece.adjacent_coordinates
adjacent_coordinates(p) ==
    (IF p.row >= 1 THEN {<<p.row - 1, p.col>>} ELSE {})
    \cup (IF p.row <= LastInner THEN {<<p.row + 1, p.col>>} ELSE {})
    \cup (IF p.col >= 1 THEN {<<p.row, p.col - 1>>} ELSE {})
    \cup (IF p.col <= LastInner THEN {<<p.row, p.col + 1>>} ELSE {})

(* --------------------------------- Board -------------------------------- *)
\* Board.__init__
NewBoard == [r \in Idx |-> [c \in Idx |-> EMPTY]]

\* Board.set_cell
set_cell(b, r, c, cell_state) == [b EXCEPT ![r][c] = cell_state]

\* is_position_occupied testing for one colour only
is_position_occupied_white(b, r, c) == b[r][c] = WHITE

\* Board.is_position_occupied
is_position_occupied(b, r, c) == ~(b[r][c] = EMPTY)

\* Board.empty_positions
empty_positions(b) == {rc \in Idx \X Idx : b[rc[1]][rc[2]] = EMPTY}

\* pieces with the elif branch yielding Color.WHITE as well
pieces_one_color(b) ==
    {Piece(r, c, ColorWHITE) : <<r, c>> \in {rc \in Idx \X Idx : b[rc[1]][rc[2]] = WHITE}}
    \cup
    {Piece(r, c, ColorWHITE) : <<r, c>> \in {rc \in Idx \X Idx : b[rc[1]][rc[2]] = BLACK}}

\* Board.pieces
pieces(b) ==
    {Piece(r, c, ColorWHITE) : <<r, c>> \in {rc \in Idx \X Idx : b[rc[1]][rc[2]] = WHITE}}
    \cup
    {Piece(r, c, ColorBLACK) : <<r, c>> \in {rc \in Idx \X Idx : b[rc[1]][rc[2]] = BLACK}}

\* |x| as Python's abs
Abs(x) == IF x < 0 THEN -x ELSE x

\* the test of Board.find_adjacent_pieces, as written: both conjuncts joined by `and`
AdjacentTest(p, some_p) ==
    (Abs(p.row - some_p.row) = 1 /\ p.col = some_p.col)
    /\ (Abs(p.col - some_p.col) = 1 /\ p.row = some_p.row)

\* Board.find_adjacent_pieces: the list holds p once per piece that passes the test
find_adjacent_pieces(p, pcs) ==
    [i \in 1..Cardinality({some_p \in pcs : AdjacentTest(p, some_p)}) |-> p]

RECURSIVE build_group(_, _, _)
RECURSIVE build_group_loop(_, _, _)
\* the for loop of Board.build_group over all_adj; group is mutated in place
build_group_loop(all_adj, considered_pieces, group) ==
    IF all_adj = <<>> THEN group
    ELSE LET adj == Head(all_adj)
             g1 == group \cup {adj}
         IN build_group_loop(Tail(all_adj), considered_pieces,
                             build_group(adj, considered_pieces \ g1, g1))

\* Board.build_group: returns the group set after the call
build_group(piece, considered_pieces, group) ==
    build_group_loop(find_adjacent_pieces(piece, considered_pieces \ group),
                     considered_pieces, group)

\* Board.count_liberties
count_liberties(b, group) ==
    {rc \in UNION {adjacent_coordinates(p) : p \in group} : b[rc[1]][rc[2]] = EMPTY}

\* Group(pieces, liberties)
Group(pcs, libs) == [pieces |-> pcs, liberties |-> libs]

\* Group.liberal
liberal(g) == Cardinality(g.liberties) # 0

RECURSIVE raw_groups_loop(_, _, _, _)
\* the for loop of Board.get_groups over all_pieces
raw_groups_loop(todo, all_pieces, added_pieces, raw_groups) ==
    IF todo = {} THEN raw_groups
    ELSE LET piece == CHOOSE p \in todo : TRUE
         IN IF ~(piece \in added_pieces)
            THEN LET group == build_group(piece, all_pieces \ {piece}, {piece})
                 IN raw_groups_loop(todo \ {piece}, all_pieces,
                                    added_pieces \cup group, Append(raw_groups, group))
            ELSE raw_groups_loop(todo \ {piece}, all_pieces, added_pieces, raw_groups)

\* Board.get_groups
get_groups(b, color) ==
    LET all_pieces == {p \in pieces(b) : p.color = color}
        raw_groups == raw_groups_loop(all_pieces, all_pieces, {}, <<>>)
    IN [i \in 1..Len(raw_groups) |-> Group(raw_groups[i], count_liberties(b, raw_groups[i]))]

\* Board.remove_group
remove_group(b, group) ==
    [r \in Idx |-> [c \in Idx |->
        IF \E p \in group.pieces : p.row = r /\ p.col = c THEN EMPTY ELSE b[r][c]]]

\* __copy__ returning the Board() it built without giving it the rows
BoardCopy_blank(cells, newId) == [id |-> newId, cells |-> [r \in Idx |-> [c \in Idx |-> EMPTY]]]

\* Board.__copy__: a new Board object holding a copy of every row
BoardCopy(cells, newId) == [id |-> newId, cells |-> cells]

\* __copy__ keeping the row lists of the original (b._board = list(self._board))
copied_rows_none == {}

\* Board.__copy__: the rows for which the copy gets a list of its own,
\* [list(r) for r in self._board]: every row
copied_rows == Idx

\* the cells seen through a Board object after the object it shares a copy
\* relation with has been mutated in place into `other`: a row that was not
\* copied is one list in both objects
Aliased(cells, other) ==
    [r \in Idx |-> IF r \in copied_rows THEN cells[r] ELSE other[r]]

\* Board.__hash__: hash of the concatenation of str(x) for x in row-major order
BoardHash(cells) == [i \in 1..(N * N) |-> cells[(i - 1) \div N][(i - 1) % N]]

\* Board defines no __eq__: == on Board objects is object.__eq__, identity
BoardEq(a, b) == a.id = b.id

\* `x in s` for a set of Board objects: an element with an equal hash that is
\* x itself or == x
SetContains(s, x) ==
    \E y \in s : (y.id = x.id \/ BoardEq(y, x)) /\ BoardHash(y.cells) = BoardHash(x.cells)

\* set.add
SetAdd(s, x) == IF SetContains(s, x) THEN s ELSE s \cup {x}

\* an object identity not used by any Board object alive
FreshId(s) == Cardinality(s) + 1

(* ------------------------------- GameState ------------------------------ *)
\* COLOR_REVERSE
COLOR_REVERSE(color) == IF color = ColorWHITE THEN ColorBLACK ELSE ColorWHITE

\* is_ended comparing with > instead of ==
is_ended_after(n) == n > 2

\* GameState.is_ended
is_ended(n) == n = 2

\* fill_new_piece with the two cell states exchanged
fill_new_piece_swapped(b, r, c, t) ==
    LET ps == IF t = ColorBLACK THEN WHITE ELSE BLACK
    IN set_cell(b, r, c, ps)

\* GameState.fill_new_piece
fill_new_piece(b, r, c, t) ==
    LET ps == IF t = ColorBLACK THEN BLACK ELSE WHITE
    IN set_cell(b, r, c, ps)

RECURSIVE remove_groups_loop(_, _, _)
\* the for loop of GameState._remove_components over the list from get_groups
remove_groups_loop(b, gs, i) ==
    IF i > Len(gs) THEN b
    ELSE remove_groups_loop(IF ~liberal(gs[i]) THEN remove_group(b, gs[i]) ELSE b, gs, i + 1)

\* GameState._remove_components / GameState.remove_components
remove_components(b, color) == remove_groups_loop(b, get_groups(b, color), 1)

\* the scratch board without the second _remove_components call
hypothetical_board_opponent_only(b, r, c, t) ==
    LET filled == fill_new_piece(b, r, c, t)
        other_color == COLOR_REVERSE(t)
    IN remove_components(filled, other_color)

\* the scratch board of GameState.detect_ko after both removals
hypothetical_board(b, r, c, t) ==
    LET filled == fill_new_piece(b, r, c, t)
        other_color == COLOR_REVERSE(t)
    IN remove_components(remove_components(filled, other_color), t)

\* GameState.detect_ko: True, or None (FALSE here) when the function falls off its end
detect_ko(b, past, r, c, t) ==
    SetContains(past, BoardCopy(hypothetical_board(b, r, c, t), FreshId(past)))

\* detect_ko simulating on self._board itself instead of on a copy
live_after_detect_ko_in_place(b, r, c, t) == hypothetical_board(b, r, c, t)

\* the live grid when GameState.detect_ko returns: the simulation ran on
\* copy(self._board)
live_after_detect_ko(b, r, c, t) == Aliased(b, hypothetical_board(b, r, c, t))

\* the snapshots of the history once the live grid has been mutated into `live`
snapshots_after(past, live) == {[p EXCEPT !.cells = Aliased(p.cells, live)] : p \in past}

\* commit_move without remove_components(self._turn)
commit_move_opponent_only(b, r, c, t) ==
    LET filled == fill_new_piece(b, r, c, t)
        other_color == COLOR_REVERSE(t)
    IN remove_components(filled, other_color)

\* commit_move removing the mover's components before other_color's
commit_move_own_first(b, r, c, t) ==
    LET filled == fill_new_piece(b, r, c, t)
        other_color == COLOR_REVERSE(t)
    IN remove_components(remove_components(filled, t), other_color)

\* GameState.update, Move branch after both checks: place, then remove
\* other_color's components, then the mover's
commit_move(b, r, c, t) ==
    LET filled == fill_new_piece(b, r, c, t)
        other_color == COLOR_REVERSE(t)
    IN remove_components(remove_components(filled, other_color), t)

(* --------------------------------- calls -------------------------------- *)
NoCall == [kind |-> "none", r |-> 0, c |-> 0]
PassCall == [kind |-> "Pass", r |-> 0, c |-> 0]
MoveCall(r, c) == [kind |-> "Move", r |-> r, c |-> c]
DetectKoCall(r, c) == [kind |-> "detect_ko", r |-> r, c |-> c]

\* calls are explored from the states an update call returned to: a raised
\* IllegalMoveError is not caught by Game.start and ends the run, and the
\* caller of a detect_ko query goes on from the state it queried
AtReturn == result \in {"none", "ok"}

\* GameState.__init__
Init ==
    /\ board = NewBoard
    /\ turn = ColorBLACK
    /\ num_of_passes = 0
    /\ past_boards = {}
    /\ call = NoCall
    /\ result = "none"
    /\ prev_board = NewBoard
    /\ log = <<>>
    /\ groups = <<>>
    /\ groups_color = "none"

\* GameState.update(Pass())
UpdatePass ==
    /\ AtReturn
    /\ Len(log) < MaxSteps
    /\ num_of_passes' = num_of_passes + 1
    /\ past_boards' = SetAdd(past_boards, BoardCopy(board, FreshId(past_boards)))
    /\ turn' = COLOR_REVERSE(turn)
    /\ call' = PassCall
    /\ result' = "ok"
    /\ prev_board' = board
    /\ log' = Append(log, PassCall)
    /\ UNCHANGED <<board, groups, groups_color>>

\* update(Move(r, c)) that sets the pass counter back to 0 on a committed Move
UpdateMove_reset(r, c) ==
    /\ AtReturn
    /\ Len(log) < MaxSteps
    /\ call' = MoveCall(r, c)
    /\ prev_board' = board
    /\ IF is_position_occupied(board, r, c)
       THEN /\ result' = "IllegalMoveError"
            /\ UNCHANGED <<board, turn, num_of_passes, past_boards, log>>
       ELSE IF detect_ko(board, past_boards, r, c, turn)
       THEN /\ result' = "IllegalMoveError"
            /\ board' = live_after_detect_ko(board, r, c, turn)
            /\ past_boards' = snapshots_after(past_boards, board')
            /\ UNCHANGED <<turn, num_of_passes, log>>
       ELSE /\ board' = commit_move(live_after_detect_ko(board, r, c, turn), r, c, turn)
            /\ past_boards' = SetAdd(snapshots_after(past_boards, board'),
                                     BoardCopy(board', FreshId(past_boards)))
            /\ turn' = COLOR_REVERSE(turn)
            /\ result' = "ok"
            /\ log' = Append(log, MoveCall(r, c))
            /\ num_of_passes' = 0
    /\ UNCHANGED <<groups, groups_color>>

\* GameState.update(Move(r, c))
UpdateMove(r, c) ==
    /\ AtReturn
    /\ Len(log) < MaxSteps
    /\ call' = MoveCall(r, c)
    /\ prev_board' = board
    /\ IF is_position_occupied(board, r, c)
       THEN /\ result' = "IllegalMoveError"
            /\ UNCHANGED <<board, turn, num_of_passes, past_boards, log>>
       ELSE IF detect_ko(board, past_boards, r, c, turn)
       THEN /\ result' = "IllegalMoveError"
            /\ board' = live_after_detect_ko(board, r, c, turn)
            /\ past_boards' = snapshots_after(past_boards, board')
            /\ UNCHANGED <<turn, num_of_passes, log>>
       ELSE /\ board' = commit_move(live_after_detect_ko(board, r, c, turn), r, c, turn)
            /\ past_boards' = SetAdd(snapshots_after(past_boards, board'),
                                     BoardCopy(board', FreshId(past_boards)))
            /\ turn' = COLOR_REVERSE(turn)
            /\ result' = "ok"
            /\ log' = Append(log, MoveCall(r, c))
            /\ UNCHANGED num_of_passes
    /\ UNCHANGED <<groups, groups_color>>

\* GameState.detect_ko(Move(r, c)) called from outside update, as
\* RandBot.decide does, on an empty position
CallDetectKo(r, c) ==
    /\ AtReturn
    /\ Len(log) < MaxSteps
    /\ ~is_position_occupied(board, r, c)
    /\ call' = DetectKoCall(r, c)
    /\ prev_board' = board
    /\ result' = IF detect_ko(board, past_boards, r, c, turn) THEN "True" ELSE "None"
    /\ board' = live_after_detect_ko(board, r, c, turn)
    /\ past_boards' = snapshots_after(past_boards, board')
    /\ UNCHANGED <<turn, num_of_passes, log, groups, groups_color>>

Next ==
    \/ UpdatePass
    \/ \E r \in PlayRows, c \in PlayCols : UpdateMove(r, c)
    \/ \E r \in PlayRows, c \in PlayCols : CallDetectKo(r, c)

Spec == Init /\ [][Next]_vars

(* ------------------------ Game.start with RandBot ------------------------ *)
\* decide trying every position of the board, occupied or not
decide_any_position(b, past, t) ==
    LET free == {rc \in Idx \X Idx : ~detect_ko(b, past, rc[1], rc[2], t)}
    IN IF free = {} THEN {PassCall} ELSE {MoveCall(rc[1], rc[2]) : rc \in free}

\* RandBot.decide: the actions it can return. random.shuffle can put any
\* position first, so any empty position for which detect_ko is not true can
\* be the one returned; Pass only when there is none.
decide(b, past, t) ==
    LET free == {rc \in empty_positions(b) : ~detect_ko(b, past, rc[1], rc[2], t)}
    IN IF free = {} THEN {PassCall} ELSE {MoveCall(rc[1], rc[2]) : rc \in free}

\* one iteration of the while loop of Game.start, bot.decide() and then
\* game_state.update(action), for the first MaxSteps iterations. Of the
\* outcomes of the shuffle, those in rows PlayRows and columns PlayCols are
\* followed.
GameIteration ==
    /\ ~is_ended(num_of_passes)
    /\ \E a \in decide(board, past_boards, turn) :
         IF a.kind = "Pass"
         THEN UpdatePass
         ELSE a.r \in PlayRows /\ a.c \in PlayCols /\ UpdateMove(a.r, a.c)

NextGame == GameIteration

SpecGame == Init /\ [][NextGame]_vars

\* the identity under which the loop's history keeps a snapshot. The loop
\* never tells two snapshots apart, so the history is kept here as one object
\* per recorded position; a scratch copy (FreshId) is never one of them.
SnapshotId == 0

\* the same iteration with no limit on their number and no log kept
LoopIteration ==
    /\ ~is_ended(num_of_passes)
    /\ AtReturn
    /\ \E a \in decide(board, past_boards, turn) :
         /\ a.kind = "Move" => (a.r \in PlayRows /\ a.c \in PlayCols)
         /\ call' = a
         /\ prev_board' = board
         /\ IF a.kind = "Pass"
            THEN /\ num_of_passes' = num_of_passes + 1
                 /\ past_boards' = SetAdd(past_boards, BoardCopy(board, SnapshotId))
                 /\ turn' = COLOR_REVERSE(turn)
                 /\ result' = "ok"
                 /\ UNCHANGED board
            ELSE IF \/ is_position_occupied(board, a.r, a.c)
                    \/ detect_ko(board, past_boards, a.r, a.c, turn)
            THEN /\ result' = "IllegalMoveError"
                 /\ UNCHANGED <<board, turn, num_of_passes, past_boards>>
            ELSE LET committed == commit_move(board, a.r, a.c, turn)
                 IN /\ board' = committed
                    /\ past_boards' = SetAdd(snapshots_after(past_boards, committed),
                                             BoardCopy(committed, SnapshotId))
                    /\ turn' = COLOR_REVERSE(turn)
                    /\ result' = "ok"
                    /\ UNCHANGED num_of_passes
    /\ UNCHANGED <<log, groups, groups_color>>

NextLoop == LoopIteration

\* an iteration of the loop that runs to its end: the loop's condition held
\* and update returned, which flips the turn (fill_new_piece for Move, the
\* Pass branch for Pass).
LoopRuns == ~is_ended(num_of_passes) /\ AtReturn /\ turn' = COLOR_REVERSE(turn)

\* the interpreter runs the loop's statements one after another: while the
\* condition of the loop holds and nothing was raised, the next iteration is
\* taken.
SpecLoop == Init /\ [][NextLoop]_vars /\ WF_turn(LoopRuns)

(* ------------------- Board used on its own (src/test.py) ----------------- *)
\* a caller builds a board with Board.set_cell, as the board_a fixture does
SetCell(r, c, cell_state) ==
    /\ groups_color = "none"
    /\ board[r][c] = EMPTY
    /\ Cardinality(pieces(board)) < MaxStones
    /\ board' = set_cell(board, r, c, cell_state)
    /\ UNCHANGED <<turn, num_of_passes, past_boards, call, result, prev_board, log,
                   groups, groups_color>>

\* ... and then calls Board.get_groups(color) on it
CallGetGroups(color) ==
    /\ groups_color = "none"
    /\ groups' = get_groups(board, color)
    /\ groups_color' = color
    /\ UNCHANGED <<board, turn, num_of_passes, past_boards, call, result, prev_board, log>>

NextBoard ==
    \/ \E r \in Probe, c \in Probe, cell_state \in {WHITE, BLACK} : SetCell(r, c, cell_state)
    \/ \E color \in Color : CallGetGroups(color)

SpecBoard == Init /\ [][NextBoard]_vars


(* ======================= the rules of Go, for the claims ================= *)
\* the cell state of a stone of the given colour
StoneOf(color) == IF color = ColorBLACK THEN BLACK ELSE WHITE

\* orthogonal adjacency: exactly one of row / col differs by exactly 1
Orthogonal(a, b) ==
    \/ (a[1] = b[1] /\ (a[2] - b[2] = 1 \/ b[2] - a[2] = 1))
    \/ (a[2] = b[2] /\ (a[1] - b[1] = 1 \/ b[1] - a[1] = 1))

Cells == Idx \X Idx
NeighboursOf(rc) == {x \in Cells : Orthogonal(x, rc)}

RECURSIVE ChainFrom(_, _)
\* the maximal 4-connected same-colour chain that contains the cells of S
ChainFrom(b, S) ==
    LET more == {x \in Cells : /\ x \notin S
                               /\ \E y \in S : Orthogonal(x, y) /\ b[x[1]][x[2]] = b[y[1]][y[2]]}
    IN IF more = {} THEN S ELSE ChainFrom(b, S \cup more)

ChainOf(b, rc) == ChainFrom(b, {rc})

\* the empty cells orthogonally adjacent to a member of the chain
LibertiesOf(b, chain) ==
    {x \in Cells : b[x[1]][x[2]] = EMPTY /\ \E y \in chain : Orthogonal(x, y)}

\* the stones of a colour whose chain has no liberty
DeadStones(b, color) ==
    {x \in Cells : b[x[1]][x[2]] = StoneOf(color) /\ LibertiesOf(b, ChainOf(b, x)) = {}}

Cleared(b, S) == [r \in Idx |-> [c \in Idx |-> IF <<r, c>> \in S THEN EMPTY ELSE b[r][c]]]

Placed(b, r, c, color) == [b EXCEPT ![r][c] = StoneOf(color)]

\* a Move by the rules: place, remove the opponent's dead chains, then the mover's
Resolved(b, r, c, color) ==
    LET p0 == Placed(b, r, c, color)
        p1 == Cleared(p0, DeadStones(p0, COLOR_REVERSE(color)))
    IN Cleared(p1, DeadStones(p1, color))

PassesIn(s) == Cardinality({i \in 1..Len(s) : s[i].kind = "Pass"})

\* the cells covered by the i-th group of the last get_groups result
MembersOf(i) == {<<p.row, p.col>> : p \in groups[i].pieces}

(* ================================ claims ================================ *)

\* C1 (positional superko): a Move onto an empty cell whose resulting board
\* (stone placed, zero-liberty groups removed, opponent first) equals a position
\* already in the history is rejected with IllegalMoveError.
PositionalSuperko ==
    [][\A r \in PlayRows, c \in PlayCols :
         (/\ call' = MoveCall(r, c)
          /\ board[r][c] = EMPTY
          /\ \E p \in past_boards : p.cells = hypothetical_board(board, r, c, turn))
         => (result' = "IllegalMoveError" /\ board' = board)]_vars

\* C2 (occupied-cell rejection): update(Move(r, c)) on a cell that is not EMPTY
\* raises IllegalMoveError and leaves cells, turn, pass counter and history as
\* they were.
OccupiedCellRejected ==
    [][\A r \in PlayRows, c \in PlayCols :
         (call' = MoveCall(r, c) /\ board[r][c] # EMPTY)
         => (/\ result' = "IllegalMoveError"
             /\ UNCHANGED <<board, turn, num_of_passes, past_boards>>)]_vars

\* a Move onto an occupied cell was made and raised
OccupiedCellRejectedWitness ==
    /\ call.kind = "Move"
    /\ prev_board[call.r][call.c] # EMPTY
    /\ result = "IllegalMoveError"
    /\ Len(log) >= 2

\* C3 (no suicide without capture): a Move onto an empty cell that captures no
\* opponent stone and leaves the placed stone's group without a liberty is
\* rejected with IllegalMoveError and not committed.
NoSuicideWithoutCapture ==
    [][\A r \in PlayRows, c \in PlayCols :
         (/\ call' = MoveCall(r, c)
          /\ board[r][c] = EMPTY
          /\ DeadStones(Placed(board, r, c, turn), COLOR_REVERSE(turn)) = {}
          /\ LibertiesOf(Placed(board, r, c, turn),
                         ChainOf(Placed(board, r, c, turn), <<r, c>>)) = {})
         => (/\ result' = "IllegalMoveError"
             /\ UNCHANGED <<board, turn, num_of_passes, past_boards>>)]_vars

\* C4 (capture correctness): the stones a successful Move removes are exactly
\* the members of the chains that have no liberty when their colour is
\* resolved (opponent first, then mover).
CaptureCorrectness ==
    [][\A r \in PlayRows, c \in PlayCols :
         (call' = MoveCall(r, c) /\ result' = "ok")
         => board' = Resolved(board, r, c, turn)]_vars

\* C5 (group maximality): orthogonally adjacent stones of the colour are in the
\* same returned Group, and each Group is connected.
GroupMaximality ==
    groups_color # "none" =>
        /\ \A x \in Cells, y \in Cells :
             (/\ Orthogonal(x, y)
              /\ board[x[1]][x[2]] = StoneOf(groups_color)
              /\ board[y[1]][y[2]] = StoneOf(groups_color))
             => \E i \in 1..Len(groups) : x \in MembersOf(i) /\ y \in MembersOf(i)
        /\ \A i \in 1..Len(groups) : \A x \in MembersOf(i) :
             MembersOf(i) \subseteq ChainOf(board, x)

\* C6 (group partition): every stone of the colour is a member of exactly one
\* returned Group, and no Group holds a stone of the other colour or an empty cell.
GroupPartition ==
    groups_color # "none" =>
        /\ \A x \in Cells :
             board[x[1]][x[2]] = StoneOf(groups_color)
             => Cardinality({i \in 1..Len(groups) : x \in MembersOf(i)}) = 1
        /\ \A i \in 1..Len(groups) : \A p \in groups[i].pieces :
             p.color = groups_color /\ board[p.row][p.col] = StoneOf(groups_color)
        /\ UNION {MembersOf(i) : i \in 1..Len(groups)}
             = {x \in Cells : board[x[1]][x[2]] = StoneOf(groups_color)}

\* get_groups returned several groups from a board holding both colours
GroupPartitionWitness ==
    /\ groups_color # "none"
    /\ Len(groups) >= 2
    /\ \E x \in Cells : board[x[1]][x[2]] = StoneOf(COLOR_REVERSE(groups_color))

\* C7 (liberty correctness): a returned Group's liberties are exactly the
\* in-bounds EMPTY cells orthogonally adjacent to a member; an isolated stone
\* has 4 at an interior cell, 3 on a non-corner edge, 2 in a corner.
LibertyCorrectness ==
    groups_color # "none" =>
        \A i \in 1..Len(groups) :
            /\ groups[i].liberties = LibertiesOf(board, MembersOf(i))
            /\ groups[i].liberties \subseteq Cells
            /\ \A x \in MembersOf(i) :
                 (MembersOf(i) = {x} /\ \A y \in NeighboursOf(x) : board[y[1]][y[2]] = EMPTY)
                 => Cardinality(groups[i].liberties) =
                      4 - (IF x[1] \in {0, N - 1} THEN 1 ELSE 0)
                        - (IF x[2] \in {0, N - 1} THEN 1 ELSE 0)

\* get_groups returned an isolated stone in the far corner, one on the far
\* edge next to the last inner row, or one with an occupied neighbour
LibertyCorrectnessWitness ==
    /\ groups_color # "none"
    /\ \E i \in 1..Len(groups) :
         MembersOf(i) = {<<N - 1, N - 1>>} /\ Cardinality(groups[i].liberties) = 2
    /\ \E i \in 1..Len(groups) :
         MembersOf(i) = {<<N - 2, 0>>} /\ Cardinality(groups[i].liberties) = 3
    /\ \E i \in 1..Len(groups) :
         MembersOf(i) = {<<1, 1>>} /\ Cardinality(groups[i].liberties) = 4

\* C8 (game end): from a new game is_ended is false while fewer than two Pass
\* actions have been applied and true once the second Pass has been applied.
GameEnd ==
    /\ PassesIn(log) < 2 => ~is_ended(num_of_passes)
    /\ PassesIn(log) = 2 => is_ended(num_of_passes)

\* two consecutive Pass actions have just ended the game
GameEndWitness ==
    /\ Len(log) >= 3
    /\ log[Len(log)].kind = "Pass"
    /\ log[Len(log) - 1].kind = "Pass"
    /\ PassesIn(log) = 2
    /\ is_ended(num_of_passes)

\* C9 (Ended is final): once is_ended is true every update call is rejected
\* and leaves the state unchanged, so is_ended stays true.
EndedIsFinal ==
    [][is_ended(num_of_passes)
       => (/\ result' = "IllegalMoveError"
           /\ UNCHANGED <<board, turn, num_of_passes, past_boards>>
           /\ is_ended(num_of_passes'))]_vars

\* the placed stone of Move(r, c) by `color` on b has no empty neighbour and
\* fills the last liberty of at least one opponent chain
FillsLastLiberty(b, r, c, color) ==
    /\ b[r][c] = EMPTY
    /\ \A y \in NeighboursOf(<<r, c>>) : b[y[1]][y[2]] # EMPTY
    /\ \E y \in NeighboursOf(<<r, c>>) : y \in DeadStones(Placed(b, r, c, color), COLOR_REVERSE(color))

\* C10 (capture precedence): a successful Move that fills the last liberty of
\* an opponent group while the placed stone has no empty neighbour keeps the
\* placed stone and removes that opponent group.
CapturePrecedence ==
    [][\A r \in PlayRows, c \in PlayCols :
         (/\ call' = MoveCall(r, c)
          /\ result' = "ok"
          /\ FillsLastLiberty(board, r, c, turn))
         => (/\ board'[r][c] = StoneOf(turn)
             /\ \A y \in NeighboursOf(<<r, c>>) :
                  y \in DeadStones(Placed(board, r, c, turn), COLOR_REVERSE(turn))
                  => \A z \in ChainOf(Placed(board, r, c, turn), y) : board'[z[1]][z[2]] = EMPTY)]_vars

\* such a capturing Move has just been committed
CapturePrecedenceWitness ==
    /\ call.kind = "Move"
    /\ result = "ok"
    /\ FillsLastLiberty(prev_board, call.r, call.c, COLOR_REVERSE(turn))
    /\ board[call.r][call.c] = StoneOf(COLOR_REVERSE(turn))


\* C11 (ko detection is read-only): a detect_ko call, whatever it returns, and
\* an update(Move) onto an empty cell that is rejected, leave the live cells,
\* the turn, the pass counter and every snapshot of the history unchanged.
DetectKoReadOnly ==
    [][(\/ call'.kind = "detect_ko"
        \/ (/\ call'.kind = "Move"
            /\ result' = "IllegalMoveError"
            /\ board[call'.r][call'.c] = EMPTY))
       => UNCHANGED <<board, turn, num_of_passes, past_boards>>]_vars

\* a detect_ko call returned whose simulation removed a stone from its scratch copy
DetectKoReadOnlyWitness ==
    /\ call.kind = "detect_ko"
    /\ board = prev_board
    /\ \E x \in Cells :
         /\ board[x[1]][x[2]] # EMPTY
         /\ hypothetical_board(board, call.r, call.c, turn)[x[1]][x[2]] = EMPTY

\* C12 (history stability): a recorded snapshot stays in the history, the same
\* object with the same cells, over every later call.
HistoryStability ==
    [][\A p \in past_boards : p \in past_boards']_vars

\* the history holds a snapshot with a stone where the live board is now empty
HistoryStabilityWitness ==
    /\ Len(log) >= 3
    /\ \E p \in past_boards : \E x \in Cells :
         p.cells[x[1]][x[2]] # EMPTY /\ board[x[1]][x[2]] = EMPTY

\* C13 (simulation agrees with commit): the board a successful Move commits is
\* cell-for-cell the scratch board detect_ko computes for that Move from the
\* state the call was made in.
SimulationAgreesWithCommit ==
    [][\A r \in PlayRows, c \in PlayCols :
         (call' = MoveCall(r, c) /\ result' = "ok")
         => board' = hypothetical_board(board, r, c, turn)]_vars

\* a committed Move removed a stone of the mover's own colour
SimulationAgreesWithCommitWitness ==
    /\ call.kind = "Move"
    /\ result = "ok"
    /\ \E x \in Cells :
         /\ x # <<call.r, call.c>>
         /\ prev_board[x[1]][x[2]] = StoneOf(COLOR_REVERSE(turn))
         /\ board[x[1]][x[2]] = EMPTY

\* C14 (turn alternation): the turn is Black iff the number of successful
\* update calls is even (a rejected call changes neither), and a stone that a
\* successful Move puts on the board has the colour of the turn at the call.
TurnAlternation ==
    /\ turn = (IF Len(log) % 2 = 0 THEN ColorBLACK ELSE ColorWHITE)
    /\ (call.kind = "Move" /\ result = "ok")
          => \A x \in Cells :
               (prev_board[x[1]][x[2]] = EMPTY /\ board[x[1]][x[2]] # EMPTY)
               => (/\ x = <<call.r, call.c>>
                   /\ board[x[1]][x[2]] = (IF Len(log) % 2 = 1 THEN BLACK ELSE WHITE))

\* the fourth successful call of the game was a Move, by White
TurnAlternationWitness ==
    /\ Len(log) = 4
    /\ call.kind = "Move"
    /\ result = "ok"
    /\ board[call.r][call.c] = WHITE
    /\ turn = ColorBLACK

\* C15 (pass counter is never reset): the pass counter is the number of Pass
\* actions applied since the game started, whatever Moves came between, so the
\* second Pass makes is_ended true.
PassCounterNeverReset ==
    /\ num_of_passes = PassesIn(log)
    /\ PassesIn(log) = 2 => is_ended(num_of_passes)

\* two Pass actions separated by a Move have ended the game
PassCounterNeverResetWitness ==
    /\ is_ended(num_of_passes)
    /\ \E i \in 1..Len(log), j \in 1..Len(log), k \in 1..Len(log) :
         /\ i < j /\ j < k
         /\ log[i].kind = "Pass" /\ log[j].kind = "Move" /\ log[k].kind = "Pass"

\* C16 (Pass leaves the board alone): update(Pass) changes no cell, adds 1 to
\* the pass counter, adds a snapshot equal to the current board to the history
\* and flips the turn.
PassLeavesBoardAlone ==
    [][(call' = PassCall /\ result' = "ok")
       => (/\ board' = board
           /\ num_of_passes' = num_of_passes + 1
           /\ turn' # turn
           /\ turn' \in Color
           /\ past_boards \subseteq past_boards'
           /\ \E p \in past_boards' \ past_boards : p.cells = board)]_vars

\* a Pass was applied to a board that holds stones
PassLeavesBoardAloneWitness ==
    /\ call = PassCall
    /\ result = "ok"
    /\ board = prev_board
    /\ \E x \in Cells : board[x[1]][x[2]] # EMPTY
    /\ \E p \in past_boards : p.cells = board

\* C17 (non-capturing Move changes one cell): a successful Move at (r, c) after
\* which no group of either colour is without a liberty changes the cell
\* (r, c) from EMPTY to the mover's colour and no other cell.
NonCapturingMoveOneCell ==
    [][\A r \in PlayRows, c \in PlayCols :
         (/\ call' = MoveCall(r, c)
          /\ result' = "ok"
          /\ DeadStones(Placed(board, r, c, turn), ColorWHITE) = {}
          /\ DeadStones(Placed(board, r, c, turn), ColorBLACK) = {})
         => board' = Placed(board, r, c, turn)]_vars

\* C18 (no liberty-less stone survives): every stone on the live board has an
\* orthogonally adjacent EMPTY cell, so no chain is without a liberty and the
\* board is never full.
NoLibertylessStone ==
    /\ \A x \in Cells :
         board[x[1]][x[2]] # EMPTY => \E y \in NeighboursOf(x) : board[y[1]][y[2]] = EMPTY
    /\ DeadStones(board, ColorWHITE) = {}
    /\ DeadStones(board, ColorBLACK) = {}
    /\ \E x \in Cells : board[x[1]][x[2]] = EMPTY

\* a committed Move whose placed stone had no liberty and was taken off again
NoLibertylessStoneWitness ==
    /\ call.kind = "Move"
    /\ result = "ok"
    /\ prev_board[call.r][call.c] = EMPTY
    /\ board[call.r][call.c] = EMPTY
    /\ \A y \in NeighboursOf(<<call.r, call.c>>) : board[y[1]][y[2]] # EMPTY


\* C19 (the game loop ends): every execution of Game.start with RandBot
\* eventually reaches a state where is_ended is true.
GameLoopEnds == <>is_ended(num_of_passes)

\* C20 (the game loop never makes an illegal move): every action the loop
\* passes to update is Pass or a Move onto a cell that was EMPTY, and the
\* update call does not raise IllegalMoveError.
LoopNeverIllegal ==
    /\ result # "IllegalMoveError"
    /\ call.kind \in {"none", "Pass", "Move"}
    /\ call.kind = "Move" => prev_board[call.r][call.c] = EMPTY

\* the loop has made its fourth Move, onto an empty position of a board that
\* held stones
LoopNeverIllegalWitness ==
    /\ Len(log) >= 4
    /\ call.kind = "Move"
    /\ result = "ok"
    /\ prev_board[call.r][call.c] = EMPTY
    /\ \E x \in Cells : prev_board[x[1]][x[2]] # EMPTY

====
